---- MODULE Spec2Model ----
(***************************************************************************)
(* The wk08_dash COVID-19 dashboard (dash_app.py) and its WSGI dispatcher  *)
(* (wsgi.py) as a state machine.                                           *)
(*                                                                         *)
(* The dashboard part is the Dash page: the loaded table df, the values of *)
(* the two dropdowns, the options of the county dropdown, the three        *)
(* figures, and the set of callbacks that have been triggered and have not *)
(* run yet.  The dispatcher part is one WSGI request at a time.            *)
(***************************************************************************)
EXTENDS Integers, Sequences, FiniteSets, TLC

\* ------------------------------------------------------------------ bounds
NRows == 2          \* rows of the loaded table
NDates == 3         \* date columns "1/22/20" .. last_column of the loaded table
MaxPathLen == 3     \* segments of a request path

\* The column "10/2/20" that update_map_fig names, as an index into the date
\* columns (the first date column, "1/22/20", is 1).
HardDate == 2

CountyNames == {"Adams", "Cook"}
StateNames == {"Illinois", "Ohio"}

VARIABLES
    df,              \* the table read at import: a sequence of rows
    state_value,     \* state-selector.value
    county_value,    \* county-selector.value
    county_options,  \* county-selector.options
    map_fig,         \* map_fig.figure
    line_fig,        \* line_fig.figure
    line_fig_day,    \* line_fig_day.figure
    pending,         \* callbacks triggered and not yet run
    wsgi             \* the last request handled by `application`

vars == <<df, state_value, county_value, county_options, map_fig, line_fig,
          line_fig_day, pending, wsgi>>

\* ------------------------------------------------------------ Python values
\* A dropdown value is None, a string, or a list of strings (what the JSON
\* encoding of a numpy array becomes).
NoneV == [t |-> "none", v |-> <<>>]
Str(s) == [t |-> "str", v |-> <<s>>]
List(l) == [t |-> "list", v |-> l]

RECURSIVE Pow2(_)
Pow2(n) == IF n = 0 THEN 1 ELSE 2 * Pow2(n - 1)

\* ------------------------------------------------------------------ the table
\* Row i reports no case on the first date and Pow2(i-1) cumulative cases from
\* its onset date on, so that the sum over a set of rows tells which rows were
\* summed.  The onset is the date "10/2/20" or the last date: a county's count
\* on "10/2/20" is, or is not, its count on the last date.
RowKeys == [Admin2 : CountyNames, Province_State : StateNames]

MkRow(key, onset, i) ==
    [Admin2 |-> key.Admin2, Province_State |-> key.Province_State,
     cases |-> [d \in 1..NDates |-> IF d >= onset THEN Pow2(i - 1) ELSE 0]]

Tables ==
    { [i \in 1..NRows |-> MkRow(k[i], o[i], i)] :
        k \in { kk \in [1..NRows -> RowKeys] :
                  \A i, j \in 1..NRows : i # j => kk[i] # kk[j] },
        o \in [1..NRows -> {HardDate, NDates}] }

last_column == Len(df[1].cases)

RECURSIVE SumRows(_, _)
SumRows(S, d) ==
    IF S = {} THEN 0
    ELSE LET i == CHOOSE x \in S : TRUE
         IN df[i].cases[d] + SumRows(S \ {i}, d)

\* pandas' Series.unique(): the distinct values in order of first appearance
RECURSIVE unique(_)
unique(s) ==
    IF s = <<>> THEN <<>>
    ELSE LET r == unique(SubSeq(s, 1, Len(s) - 1))
             x == s[Len(s)]
         IN IF \E i \in 1..Len(r) : r[i] = x THEN r ELSE Append(r, x)

Admin2Of(rows) == [i \in 1..Len(rows) |-> rows[i].Admin2]
StateOf(rows) == [i \in 1..Len(rows) |-> rows[i].Province_State]

index == [d \in 1..last_column |-> d]

total_cases == [d \in 1..last_column |-> SumRows(DOMAIN df, d)]

date_cases_by_state(s) ==
    [d \in 1..last_column |->
        SumRows({i \in DOMAIN df : df[i].Province_State = s}, d)]

date_cases_by_county(c) ==
    [d \in 1..last_column |->
        SumRows({i \in DOMAIN df : df[i].Admin2 = c}, d)]

\* values[1:] - values[:-1]
Diff(v) == [k \in 1..(Len(v) - 1) |-> v[k + 1] - v[k]]

hovertext == [i \in DOMAIN df |-> <<df[i].Admin2, df[i].Province_State>>]

Choropleth(col) == [z |-> [i \in DOMAIN df |-> df[i].cases[col]],
                    hovertext |-> hovertext]

Scatter(x, y) == [x |-> x, y |-> y, ndim |-> 1]

initial_map_fig == Choropleth(last_column)
initial_line_fig == Scatter(index, total_cases)
initial_line_fig_day == Scatter(index, Diff(total_cases))

\* ------------------------------------------------------------ helper functions
Options(names) == [i \in 1..Len(names) |-> [label |-> names[i], value |-> names[i]]]

get_county_selections(state) ==
    IF state # NoneV /\ state # Str("")
    THEN Options(unique(Admin2Of(
             SelectSeq(df, LAMBDA r : r.Province_State = state.v[1]))))
    ELSE Options(unique(Admin2Of(df)))

get_state_selections == Options(unique(StateOf(df)))

get_state_from_county(county) ==
    IF county = NoneV THEN NoneV
    ELSE List(unique(StateOf(SelectSeq(df, LAMBDA r : r.Admin2 = county.v[1]))))

\* ------------------------------------------------------------ callback bodies
\* update_county_selector without the unwrapping of a list: no row's
\* Province_State equals a list
update_county_selector_no_unwrap(state) ==
    IF state # NoneV /\ state.t = "list"
    THEN <<>>
    ELSE get_county_selections(state)

update_county_selector(state) ==
    IF state # NoneV /\ state.t = "list"
    THEN get_county_selections(Str(state.v[1]))
    ELSE get_county_selections(state)

update_state_selector(county) == get_state_from_county(county)

update_map_fig(county, state) == Choropleth(HardDate)

\* date_cases_by_state[state] for a list of labels is a DataFrame with one
\* column per label; .values is then two-dimensional (dates x labels), here
\* in row-major order.
FrameValues(columns) ==
    [k \in 1..(Len(columns[1]) * Len(columns)) |->
        columns[((k - 1) % Len(columns)) + 1][((k - 1) \div Len(columns)) + 1]]

\* update_line_fig with the two tests in the other order: a selected state
\* wins over a selected county
update_line_fig_state_first(county, state) ==
    IF county = NoneV /\ state = NoneV
    THEN <<Scatter(index, total_cases), Scatter(index, Diff(total_cases))>>
    ELSE LET data == IF state.t = "str"
                     THEN date_cases_by_state(state.v[1])
                     ELSE date_cases_by_county(county.v[1])
         IN <<Scatter(index, data), Scatter(index, Diff(data))>>

update_line_fig(county, state) ==
    IF county = NoneV /\ state = NoneV
    THEN <<Scatter(index, total_cases), Scatter(index, Diff(total_cases))>>
    ELSE IF county = NoneV /\ state.t = "list"
    THEN LET data == [j \in 1..Len(state.v) |-> date_cases_by_state(state.v[j])]
         IN << [x |-> index, ndim |-> 2, y |-> FrameValues(data)],
               [x |-> index, ndim |-> 2,
                y |-> FrameValues([j \in 1..Len(data) |-> Diff(data[j])])] >>
    ELSE LET data == IF county = NoneV
                     THEN date_cases_by_state(state.v[1])
                     ELSE date_cases_by_county(county.v[1])
         IN <<Scatter(index, data), Scatter(index, Diff(data))>>

\* ------------------------------------------------------- the callback graph
Callbacks == {"update_county_selector", "update_state_selector",
              "update_map_fig", "update_line_fig"}

Inputs(cb) ==
    IF cb = "update_county_selector" THEN {"state-selector.value"}
    ELSE IF cb = "update_state_selector" THEN {"county-selector.value"}
    ELSE {"county-selector.value", "state-selector.value"}

\* update_county_selector writing the county dropdown's value instead of its
\* options
Outputs_county_value(cb) ==
    IF cb = "update_county_selector" THEN {"county-selector.value"}
    ELSE IF cb = "update_state_selector" THEN {"state-selector.value"}
    ELSE IF cb = "update_map_fig" THEN {"map_fig.figure"}
    ELSE {"line_fig.figure", "line_fig_day.figure"}

Outputs(cb) ==
    IF cb = "update_county_selector" THEN {"county-selector.options"}
    ELSE IF cb = "update_state_selector" THEN {"state-selector.value"}
    ELSE IF cb = "update_map_fig" THEN {"map_fig.figure"}
    ELSE {"line_fig.figure", "line_fig_day.figure"}

\* the callbacks a change of property p triggers
Triggered(p) == {cb \in Callbacks : p \in Inputs(cb)}

\* A triggered callback runs once no other triggered callback still has to
\* write one of its inputs.
Ready(cb) ==
    /\ cb \in pending
    /\ \A o \in pending \ {cb} : Outputs(o) \cap Inputs(cb) = {}

AfterCall(cb) ==
    (pending \ {cb}) \cup UNION {Triggered(p) : p \in Outputs(cb)}

NoRequest == [path |-> <<"<no request>">>, app |-> "", SCRIPT_NAME |-> <<>>,
              PATH_INFO |-> <<>>, endpoint |-> ""]

\* ------------------------------------------------------------------ page load
Init ==
    /\ df \in Tables
    /\ state_value = NoneV
    /\ county_value = NoneV
    /\ county_options = get_county_selections(NoneV)
    /\ map_fig = initial_map_fig
    /\ line_fig = initial_line_fig
    /\ line_fig_day = initial_line_fig_day
    /\ pending = Callbacks
    /\ wsgi = NoRequest

\* ---------------------------------------------------------------- user actions
OptionValues(opts) == {opts[i].value : i \in 1..Len(opts)}

SelectState(s) ==
    /\ s \in {NoneV} \cup {Str(x) : x \in OptionValues(get_state_selections)}
    /\ s # state_value
    /\ state_value' = s
    /\ pending' = pending \cup Triggered("state-selector.value")
    /\ UNCHANGED <<df, county_value, county_options, map_fig, line_fig,
                   line_fig_day, wsgi>>

SelectCounty(c) ==
    /\ c \in {NoneV} \cup {Str(x) : x \in OptionValues(county_options)}
    /\ c # county_value
    /\ county_value' = c
    /\ pending' = pending \cup Triggered("county-selector.value")
    /\ UNCHANGED <<df, state_value, county_options, map_fig, line_fig,
                   line_fig_day, wsgi>>

\* ------------------------------------------------------------------ callbacks
CallUpdateCountySelector ==
    /\ Ready("update_county_selector")
    /\ county_options' = update_county_selector(state_value)
    /\ pending' = AfterCall("update_county_selector")
    /\ UNCHANGED <<df, state_value, county_value, map_fig, line_fig,
                   line_fig_day, wsgi>>

CallUpdateStateSelector ==
    /\ Ready("update_state_selector")
    /\ state_value' = update_state_selector(county_value)
    /\ pending' = AfterCall("update_state_selector")
    /\ UNCHANGED <<df, county_value, county_options, map_fig, line_fig,
                   line_fig_day, wsgi>>

CallUpdateMapFig ==
    /\ Ready("update_map_fig")
    /\ map_fig' = update_map_fig(county_value, state_value)
    /\ pending' = AfterCall("update_map_fig")
    /\ UNCHANGED <<df, state_value, county_value, county_options,
                   line_fig, line_fig_day, wsgi>>

CallUpdateLineFig ==
    /\ Ready("update_line_fig")
    /\ LET figs == update_line_fig(county_value, state_value)
       IN line_fig' = figs[1] /\ line_fig_day' = figs[2]
    /\ pending' = AfterCall("update_line_fig")
    /\ UNCHANGED <<df, state_value, county_value, county_options,
                   map_fig, wsgi>>

Next ==
    \/ \E s \in {NoneV} \cup {Str(x) : x \in StateNames} : SelectState(s)
    \/ \E c \in {NoneV} \cup {Str(x) : x \in CountyNames} : SelectCounty(c)
    \/ CallUpdateCountySelector
    \/ CallUpdateStateSelector
    \/ CallUpdateMapFig
    \/ CallUpdateLineFig

Spec == Init /\ [][Next]_vars

\* ------------------------------------------------------------ the dispatcher
\* A request path is the sequence of its segments, each written after a "/":
\* "/dash/" is <<"dash", "">>, "/" is <<"">>, the empty path is <<>>.
Segments == {"dash", "hello", "about", "x"}

RECURSIVE PathsOfLen(_)
PathsOfLen(n) ==
    IF n = 0 THEN {<<>>}
    ELSE {Append(p, g) : p \in {q \in PathsOfLen(n - 1) :
                                    q = <<>> \/ q[Len(q)] # ""},
                         g \in Segments \cup {""}}

\* only the last segment may be empty (a trailing "/")
Paths == UNION {PathsOfLen(n) : n \in 0..MaxPathLen}

\* the plain web app of module flask_app
flask_app == "flask_app"

\* dash_app.server: the Flask routes "/", "/hello", "/about/" and the routes
\* Dash adds under routes_pathname_prefix "/dash/".
FlaskPages == {"index", "helloWorld", "about"}

server(path_info) ==
    IF path_info = <<"">> THEN "index"
    ELSE IF path_info = <<"hello">> THEN "helloWorld"
    ELSE IF path_info = <<"about", "">> THEN "about"
    ELSE IF path_info \in {<<>>, <<"about">>, <<"dash">>} THEN "redirect"
    ELSE IF path_info[1] = "dash" THEN "dash"
    ELSE "not_found"

\* DispatcherMiddleware(flask_app, {"/dash": app.server}): the longest prefix
\* of the path that is a mount point names the app; the rest is its PATH_INFO.
RECURSIVE application(_, _)
application(script, path_info) ==
    IF script = <<>>
    THEN [app |-> flask_app, SCRIPT_NAME |-> script, PATH_INFO |-> path_info,
          endpoint |-> flask_app]
    ELSE IF script = <<"dash">>
    THEN [app |-> "server", SCRIPT_NAME |-> script, PATH_INFO |-> path_info,
          endpoint |-> server(path_info)]
    ELSE application(SubSeq(script, 1, Len(script) - 1),
                     <<script[Len(script)]>> \o path_info)

Request(p) ==
    /\ wsgi' = [path |-> p] @@ application(p, <<>>)
    /\ UNCHANGED <<df, state_value, county_value, county_options, map_fig,
                   line_fig, line_fig_day, pending>>

NextWsgi == \E p \in Paths : Request(p)

SpecWsgi == Init /\ [][NextWsgi]_vars

\* ================================================================== claims
\* What the claims speak of, stated on the table itself.
RowsWhere(P(_)) == {i \in DOMAIN df : P(df[i])}

RECURSIVE SumUpTo(_, _, _)
SumUpTo(n, S, d) ==
    IF n = 0 THEN 0
    ELSE SumUpTo(n - 1, S, d) + (IF n \in S THEN df[n].cases[d] ELSE 0)

PerDateSum(S) == [d \in 1..Len(df[1].cases) |-> SumUpTo(Len(df), S, d)]

AllDates == [d \in 1..Len(df[1].cases) |-> d]

Shown(cb) == cb \notin pending

Quiescent == pending = {}

\* ------------------------------------------------------------------------ C1
\* C1: once update_line_fig has run for the current selection, the cumulative
\* chart plots, over every date column: the sum of all rows when county and
\* state are both None; the sum of the rows of the selected state when county
\* is None and a state is selected; the rows named by the selected county
\* when a county is selected, whatever the state value is.
C1_LineFigFollowsSelection ==
    Shown("update_line_fig") =>
        /\ line_fig.x = AllDates
        /\ (county_value = NoneV /\ state_value = NoneV)
              => line_fig.y = PerDateSum(DOMAIN df)
        /\ (county_value = NoneV /\ state_value.t = "str")
              => line_fig.y = PerDateSum(RowsWhere(
                     LAMBDA r : r.Province_State = state_value.v[1]))
        /\ county_value # NoneV
              => line_fig.y = PerDateSum(RowsWhere(
                     LAMBDA r : r.Admin2 = county_value.v[1]))

\* a county is selected together with a state whose sum is another series,
\* and the chart shows the county's
C1_Witness ==
    /\ Shown("update_line_fig")
    /\ county_value # NoneV
    /\ state_value.t = "str"
    /\ PerDateSum(RowsWhere(LAMBDA r : r.Province_State = state_value.v[1]))
         # PerDateSum(RowsWhere(LAMBDA r : r.Admin2 = county_value.v[1]))
    /\ line_fig.y = PerDateSum(RowsWhere(LAMBDA r : r.Admin2 = county_value.v[1]))

\* ------------------------------------------------------------------------ C2
\* C2: every change of a selector value invokes update_map_fig with the new
\* (county, state), and the map it returns reflects the selection: the map
\* shown for a selection is not the map returned for no selection.
C2_MapReflectsSelection ==
    (Shown("update_map_fig") /\ <<county_value, state_value>> # <<NoneV, NoneV>>)
        => map_fig # update_map_fig(NoneV, NoneV)

\* ------------------------------------------------------------------------ C3
\* C3: a request under the /dash mount goes to the dashboard's server and
\* every other request to flask_app, each to exactly one of the two; and a
\* request under /dash reaches the Dash dashboard, not a plain Flask page.
UnderMount(p) == Len(p) >= 1 /\ p[1] = "dash"

C3_DispatchReachesDash ==
    wsgi # NoRequest =>
        /\ wsgi.app \in {flask_app, "server"}
        /\ wsgi.app = "server" <=> UnderMount(wsgi.path)
        /\ UnderMount(wsgi.path) => wsgi.endpoint \notin FlaskPages
        /\ wsgi.path = <<"dash", "">> => wsgi.endpoint = "dash"

\* ------------------------------------------------------------------------ C4
\* C4: the series plotted for a selected county is the series of one single
\* row of that name, not merged with other rows sharing the name.
C4_CountySeriesIsOneRow ==
    (Shown("update_line_fig") /\ county_value # NoneV) =>
        \E i \in DOMAIN df :
            /\ df[i].Admin2 = county_value.v[1]
            /\ line_fig.y = df[i].cases

\* ------------------------------------------------------------------------ C5
\* C5: once update_county_selector has run for the current state value, the
\* county options are exactly the distinct Admin2 values of the rows of that
\* state (of the first element when the value is a list), or of the whole
\* table when the value is None; the empty string is treated as None; every
\* option has label equal to value.
EffectiveState(v) == IF v = NoneV THEN "" ELSE v.v[1]

IsOptionsOf(opts, S) ==
    /\ {opts[i].value : i \in 1..Len(opts)} = {df[i].Admin2 : i \in S}
    /\ \A i, j \in 1..Len(opts) : i # j => opts[i].value # opts[j].value
    /\ \A i \in 1..Len(opts) : opts[i].label = opts[i].value

C5_CountyOptions ==
    /\ Shown("update_county_selector") =>
          IF state_value = NoneV
          THEN IsOptionsOf(county_options, DOMAIN df)
          ELSE IsOptionsOf(county_options, RowsWhere(
                   LAMBDA r : r.Province_State = EffectiveState(state_value)))
    /\ IsOptionsOf(update_county_selector(Str("")), DOMAIN df)

\* the state value is the list update_state_selector wrote, and the options
\* are those of its first element and not of the whole table
C5_Witness ==
    /\ Shown("update_county_selector")
    /\ state_value.t = "list"
    /\ IsOptionsOf(county_options, RowsWhere(
            LAMBDA r : r.Province_State = state_value.v[1]))
    /\ ~IsOptionsOf(county_options, DOMAIN df)

\* ------------------------------------------------------------------------ C6
\* C6: when update_state_selector runs for a selected county, the state value
\* it sets is the single state that contains the county, and a state chosen
\* before is kept when the county lies in it; for no county it sets None.
Denotes(v, s) == v = Str(s) \/ v = List(<<s>>)

Contains(s, c) ==
    \E i \in DOMAIN df : df[i].Province_State = s /\ df[i].Admin2 = c

StateSelectorRuns ==
    "update_state_selector" \in pending /\ "update_state_selector" \notin pending'

C6_StateOfCounty ==
    [][StateSelectorRuns =>
        /\ county_value = NoneV => state_value' = NoneV
        /\ county_value # NoneV =>
              /\ \E s \in StateNames :
                    Denotes(state_value', s) /\ Contains(s, county_value.v[1])
              /\ \A s \in StateNames :
                    (Denotes(state_value, s) /\ Contains(s, county_value.v[1]))
                        => Denotes(state_value', s)]_vars

\* ------------------------------------------------------------------------ C7
\* C7: in the per-day chart y[k] = cumulative[k+1] - cumulative[k], x and y
\* have the same length, and y[k] is paired with date k+1.
C7_PerDayAlignment ==
    /\ \A k \in 1..Len(line_fig_day.y) :
          line_fig_day.y[k] = line_fig.y[k + 1] - line_fig.y[k]
    /\ Len(line_fig_day.x) = Len(line_fig_day.y)
    /\ \A k \in 1..Len(line_fig_day.y) : line_fig_day.x[k] = line_fig.x[k + 1]

\* ------------------------------------------------------------------------ C8
\* C8: after any selections the map shown colours every county by the last
\* date column: the figure update_map_fig returned is the initial map_fig.
C8_MapIsInitialMap ==
    Shown("update_map_fig") =>
        /\ \A i \in DOMAIN df : map_fig.z[i] = df[i].cases[Len(df[i].cases)]
        /\ map_fig = initial_map_fig

\* ------------------------------------------------------------------------ C9
\* C9: every cascade of callbacks settles: while a callback is pending one of
\* the pending callbacks can run, and every callback that runs lowers the
\* rank of the pending set (a callback counts one more than the callbacks its
\* outputs trigger), so no callback is triggered again through the chain;
\* update_county_selector never changes the county value.
Rank(cb) == 1 + Cardinality(UNION {Triggered(p) : p \in Outputs(cb)})

RECURSIVE RankSum(_)
RankSum(S) ==
    IF S = {} THEN 0
    ELSE LET cb == CHOOSE x \in S : TRUE IN Rank(cb) + RankSum(S \ {cb})

CallbackRuns(cb) == cb \in pending /\ cb \notin pending'

C9_CascadeSettles ==
    /\ [](pending # {} => \E cb \in pending : Ready(cb))
    /\ [][(\E cb \in Callbacks : CallbackRuns(cb))
            => RankSum(pending') < RankSum(pending)]_vars
    /\ [][CallbackRuns("update_county_selector")
            => county_value' = county_value]_vars
    /\ [][(county_value' # county_value)
            => "update_state_selector" \in pending']_vars
    /\ [][CallbackRuns("update_state_selector")
            => "update_county_selector" \in pending']_vars

\* the cascade of a county selection has run to its end: the state value is
\* the one update_state_selector wrote and nothing is pending
C9_Witness ==
    /\ Quiescent
    /\ county_value # NoneV
    /\ state_value = update_state_selector(county_value)
    /\ county_options = update_county_selector(state_value)

====
